---- MODULE Spec2Model ----
(***************************************************************************)
(* lwm: parse /proc/meminfo and print memory usage (src/src/main.rs).      *)
(*                                                                         *)
(* Text is modelled as a sequence of tokens: a line is its key token       *)
(* (everything up to and including the first ':', e.g. "MemTotal:")        *)
(* followed by one-character tokens.  No required key is a prefix of       *)
(* another, so str::starts_with(key) is equality of the key token.         *)
(*                                                                         *)
(* Numbers are held as sequences of decimal digits, most significant       *)
(* first, without leading zeros (u64 and the byte counts of the report do  *)
(* not fit the model checker's integers).  An f64 that holds a whole        *)
(* number is that number; `as f64`, the f64 product and the f64 quotient   *)
(* round to 53 significant bits, to nearest, ties to even (IEEE 754).      *)
(* log10, powf and round of lwm_conv_to_hbytes are taken exactly.          *)
(***************************************************************************)
EXTENDS Integers, Sequences, FiniteSets, TLC

VARIABLES pc, panic, src, args, lwm, out, key, value, size, binary, hbytes

vars == <<pc, panic, src, args, lwm, out, key, value, size, binary, hbytes>>

\* ------------------------------------------------------------------ bounds

\* Whitespace runs of 0..MaxPad characters around the digits of a line.
MaxPad == 2
\* At most MaxUnitFlags unit-selecting flags are given on one command line.
MaxUnitFlags == 1
\* Byte counts 0..MaxSmallBytes are given to the formatter one by one.
MaxSmallBytes == 12

\* ------------------------------------------------------- decimal numbers

DigitChars == <<"0", "1", "2", "3", "4", "5", "6", "7", "8", "9">>

IsDigit(c) == \E d \in 0..9 : DigitChars[d + 1] = c

DigitOfChar(c) == CHOOSE d \in 0..9 : DigitChars[d + 1] = c

RECURSIVE BigNorm(_)
BigNorm(s) == IF Len(s) > 1 /\ s[1] = 0 THEN BigNorm(Tail(s)) ELSE s

BigZero == <<0>>

BigCmp(a, b) ==
    IF Len(a) # Len(b)
    THEN (IF Len(a) < Len(b) THEN -1 ELSE 1)
    ELSE LET diff == {i \in 1..Len(a) : a[i] # b[i]}
         IN IF diff = {} THEN 0
            ELSE LET i == CHOOSE j \in diff : \A k \in diff : j <= k
                 IN IF a[i] < b[i] THEN -1 ELSE 1

BigLeq(a, b) == BigCmp(a, b) <= 0

BigLt(a, b) == BigCmp(a, b) < 0

RECURSIVE NatDigits(_)
NatDigits(n) == IF n = 0 THEN <<>> ELSE Append(NatDigits(n \div 10), n % 10)

BigOfNat(n) == IF n = 0 THEN BigZero ELSE NatDigits(n)

RECURSIVE MulCarry(_, _, _, _)
MulCarry(a, m, i, carry) ==
    IF i = 0 THEN NatDigits(carry)
    ELSE LET t == a[i] * m + carry
         IN Append(MulCarry(a, m, i - 1, t \div 10), t % 10)

\* a * m for a small factor m
BigMulSmall(a, m) == BigNorm(<<0>> \o MulCarry(a, m, Len(a), 0))

RECURSIVE DivCarry(_, _, _, _)
DivCarry(a, d, i, rem) ==
    IF i > Len(a) THEN <<>>
    ELSE LET t == rem * 10 + a[i]
         IN <<t \div d>> \o DivCarry(a, d, i + 1, t % d)

\* floor(a / d) for a small divisor d
BigDivSmall(a, d) == BigNorm(<<0>> \o DivCarry(a, d, 1, 0))

RECURSIVE AddCarry(_, _, _, _, _)
AddCarry(a, b, i, j, carry) ==
    IF i = 0 /\ j = 0 THEN NatDigits(carry)
    ELSE LET da == IF i > 0 THEN a[i] ELSE 0
             db == IF j > 0 THEN b[j] ELSE 0
             t == da + db + carry
             i1 == IF i > 0 THEN i - 1 ELSE 0
             j1 == IF j > 0 THEN j - 1 ELSE 0
         IN Append(AddCarry(a, b, i1, j1, t \div 10), t % 10)

BigAdd(a, b) == BigNorm(<<0>> \o AddCarry(a, b, Len(a), Len(b), 0))

RECURSIVE SubBorrow(_, _, _, _, _)
SubBorrow(a, b, i, j, borrow) ==
    IF i = 0 THEN <<>>
    ELSE LET db == IF j > 0 THEN b[j] ELSE 0
             t == a[i] - db - borrow
             j1 == IF j > 0 THEN j - 1 ELSE 0
         IN IF t < 0
            THEN Append(SubBorrow(a, b, i - 1, j1, 1), t + 10)
            ELSE Append(SubBorrow(a, b, i - 1, j1, 0), t)

\* a - b, for a >= b
BigSub(a, b) == BigNorm(<<0>> \o SubBorrow(a, b, Len(a), Len(b), 0))

\* step^k for the two ladder steps
PowTable[step \in {1000, 1024}, k \in 0..8] ==
    IF k = 0 THEN <<1>> ELSE BigMulSmall(PowTable[step, k - 1], step)

BigPow(step, k) == PowTable[step, k]

\* a times the product of a list of small factors, and the quotient by that
\* product (floor(floor(a / x) / y) = floor(a / (x * y)) on the naturals).
MulFactors[a \in Seq(0..9), fs \in Seq(Nat)] ==
    IF fs = <<>> THEN a ELSE MulFactors[BigMulSmall(a, Head(fs)), Tail(fs)]

BigMulFactors(a, fs) == MulFactors[a, fs]

DivFactors[a \in Seq(0..9), fs \in Seq(Nat)] ==
    IF fs = <<>> THEN a ELSE DivFactors[BigDivSmall(a, Head(fs)), Tail(fs)]

BigDivFactors(a, fs) == DivFactors[a, fs]

\* u64::MAX = 2^64 - 1
U64_MAX == <<1,8,4,4,6,7,4,4,0,7,3,7,0,9,5,5,1,6,1,5>>

\* The decimal rendering of a number ({} of an integer).
BigChars(a) == [i \in 1..Len(a) |-> DigitChars[a[i] + 1]]

\* `x as u64` of a non-negative f64: saturates at u64::MAX.
as_u64(x) == IF BigLeq(x, U64_MAX) THEN x ELSE U64_MAX

\* ---------------------------------------------------------------------- f64

\* 2^53: an f64 has 53 significant bits.
MantissaLimit == <<9,0,0,7,1,9,9,2,5,4,7,4,0,9,9,2>>

\* a * 2^k, k <= 53
BigShl(a, k) ==
    IF k <= 26 THEN BigMulSmall(a, 2^k)
    ELSE BigMulSmall(BigMulSmall(a, 2^26), 2^(k - 26))

\* The number of low bits of x that do not fit the 53 bits (from k up).
ExcessBits[x \in Seq(0..9), k \in Nat] ==
    IF BigLt(x, BigMulSmall(MantissaLimit, 2^k)) THEN k ELSE ExcessBits[x, k + 1]

\* The number of bits of x >= 1 (from b up).
BitLength[x \in Seq(0..9), b \in Nat] ==
    IF BigLt(x, BigShl(<<1>>, b)) THEN b ELSE BitLength[x, b + 1]

IsOdd(a) == a[Len(a)] % 2 = 1

\* n, or n + 1 when the rest (twice the rest compared with the divisor) is
\* above the half, or at the half with n odd.
TiesToEven(n, twice_rest, divisor) ==
    LET c == BigCmp(twice_rest, divisor)
    IN IF c > 0 \/ (c = 0 /\ IsOdd(n)) THEN BigAdd(n, <<1>>) ELSE n

\* The f64 nearest to the whole number x.
round_f64(x) ==
    LET k == ExcessBits[x, 0]
        n == BigDivSmall(x, 2^k)
        rest == BigSub(x, BigMulSmall(n, 2^k))
    IN IF k = 0 THEN x
       ELSE BigMulSmall(TiesToEven(n, BigMulSmall(rest, 2), BigOfNat(2^k)), 2^k)

\* `v as f64` of a u64
as_f64(v) == round_f64(v)

\* The whole part of the f64 quotient x / n, for whole f64 x and n (n given
\* by its factors).  Below 2^53 the quotient keeps fraction bits; it
\* reaches the next whole number when the exact quotient is within half a
\* unit in the last place of it.
div_f64_trunc(x, nfactors) ==
    LET n == BigMulFactors(<<1>>, nfactors)
        q == BigDivFactors(x, nfactors)
        r == BigSub(x, BigMulFactors(q, nfactors))
    IN IF r = BigZero THEN round_f64(q)
       ELSE IF BigLeq(MantissaLimit, q)
       THEN LET k == ExcessBits[q, 0]
                m == BigDivSmall(q, 2^k)
                rest == BigSub(x, BigMulFactors(BigMulSmall(m, 2^k), nfactors))
            IN BigMulSmall(TiesToEven(m, BigMulSmall(rest, 2), BigMulSmall(n, 2^k)), 2^k)
       ELSE IF q = BigZero THEN BigZero
       ELSE IF BigLeq(BigShl(BigSub(n, r), 54 - BitLength[q, 1]), n)
            THEN BigAdd(q, <<1>>)
            ELSE q

\* --------------------------------------------------------------- constants

MEMINFO_PATH == "/proc/meminfo"
WHITE_COLOR == "ESC[1;37m"
END_COLOR == "ESC[0m"

\* f64 unit constants, each held as the list of its factors.
TO_B == <<1>>
TO_KB == <<1024>>
TO_MB == Append(TO_KB, 1024)
TO_GB == Append(TO_MB, 1024)
TO_TB == Append(TO_GB, 1024)
TO_PB == Append(TO_TB, 1024)

TO_KiB == <<1000>>
TO_MiB == Append(TO_KiB, 1000)
TO_GiB == Append(TO_MiB, 1000)
TO_TiB == Append(TO_GiB, 1000)
TO_PiB == Append(TO_TiB, 1000)

\* to_bytes!(size, unit) = size as f64 * unit
to_bytes(sz, unit) == round_f64(BigMulSmall(as_f64(sz), unit))

\* to_size!(size, nunit) = (size as f64 * 1024.0) / (nunit as f64), its
\* whole part (every use is `to_size!(..) as u64`).
to_size(sz, nunit) == div_f64_trunc(round_f64(BigMulSmall(as_f64(sz), 1024)), nunit)

\* The keys lwm_attach_values asks for, in the order it asks.
RequiredKeys ==
    <<"MemTotal:", "MemFree:", "MemAvailable:", "Buffers:", "Cached:",
      "SwapCached:", "SwapFree:", "SwapTotal:", "Zswap:", "Zswapped:",
      "Shmem:", "SReclaimable:">>

\* ------------------------------------------------------ the field extractor

Whitespace == {" ", "\t"}

\* e.starts_with(key)
starts_with(e, k) == Len(e) > 0 /\ e[1] = k

\* e.split(':').nth(1).unwrap(): what follows the key's colon, up to the
\* next colon.
split_nth1(e) ==
    LET rest == Tail(e)
        colons == {i \in 1..Len(rest) : rest[i] = ":"}
    IN IF colons = {} THEN rest
       ELSE SubSeq(rest, 1, (CHOOSE i \in colons : \A j \in colons : i <= j) - 1)

\* second.contains("kB")
contains_kB(s) == \E i \in 1..(Len(s) - 1) : s[i] = "k" /\ s[i + 1] = "B"

RECURSIVE trim_end_matches_kB(_)
trim_end_matches_kB(s) ==
    IF Len(s) >= 2 /\ s[Len(s) - 1] = "k" /\ s[Len(s)] = "B"
    THEN trim_end_matches_kB(SubSeq(s, 1, Len(s) - 2))
    ELSE s

RECURSIVE trim_start(_)
trim_start(s) == IF Len(s) > 0 /\ s[1] \in Whitespace THEN trim_start(Tail(s)) ELSE s

RECURSIVE trim_end(_)
trim_end(s) ==
    IF Len(s) > 0 /\ s[Len(s)] \in Whitespace
    THEN trim_end(SubSeq(s, 1, Len(s) - 1))
    ELSE s

trim(s) == trim_end(trim_start(s))

\* The suffix left in place: only the whitespace is trimmed.
pushed_untrimmed_suffix(e) == trim(split_nth1(e))

\* What one matching line pushes onto `value`.
pushed(e) ==
    LET second == split_nth1(e)
    IN IF contains_kB(second) THEN trim(trim_end_matches_kB(second)) ELSE trim(second)

\* value after src.lines().for_each(...): every matching line pushes.
RECURSIVE collect(_, _)
collect(text, k) ==
    IF text = <<>> THEN <<>>
    ELSE (IF starts_with(Head(text), k) THEN pushed(Head(text)) ELSE <<>>)
         \o collect(Tail(text), k)

\* str::parse::<u64>(): an optional '+', then one or more digits, at most
\* u64::MAX.
parse_u64(s) ==
    LET body == IF Len(s) > 0 /\ s[1] = "+" THEN Tail(s) ELSE s
    IN IF body = <<>> \/ \E i \in 1..Len(body) : ~IsDigit(body[i])
       THEN [ok |-> FALSE, val |-> BigZero]
       ELSE LET v == BigNorm([i \in 1..Len(body) |-> DigitOfChar(body[i])])
            IN IF BigLeq(v, U64_MAX)
               THEN [ok |-> TRUE, val |-> v]
               ELSE [ok |-> FALSE, val |-> BigZero]

\* A value that does not parse read as zero (unwrap_or(0)) instead of failing.
lwm_get_value_or_zero(text, k) ==
    LET r == parse_u64(collect(text, k))
    IN IF r.ok THEN r ELSE [ok |-> TRUE, val |-> BigZero]

\* Lwm::lwm_get_value: value.parse::<u64>().unwrap(); ok = FALSE is the panic.
lwm_get_value(text, k) == parse_u64(collect(text, k))

\* ------------------------------------------------------------ the snapshot

\* Lwm::new()
Lwm_new ==
    [mem_total |-> BigZero, mem_free |-> BigZero, mem_avail |-> BigZero,
     mem_used |-> BigZero, buffers |-> BigZero, cached |-> BigZero,
     swap_cached |-> BigZero, swap_total |-> BigZero, swap_free |-> BigZero,
     swap_used |-> BigZero, zswap |-> BigZero, zswapped |-> BigZero,
     shmem |-> BigZero, s_reclaimable |-> BigZero]

TwoPow64 == BigAdd(U64_MAX, <<1>>)

\* The subtraction with its operands exchanged.
sub_u64_swapped(a, b, checks) ==
    IF BigLeq(a, b) THEN [ok |-> TRUE, val |-> BigSub(b, a)]
    ELSE IF checks THEN [ok |-> FALSE, val |-> BigZero]
    ELSE [ok |-> TRUE, val |-> BigSub(TwoPow64, BigSub(a, b))]

\* a - b on u64: with overflow checks (a debug build) an underflow panics,
\* without them (a release build) it wraps modulo 2^64.
sub_u64(a, b, checks) ==
    IF BigLeq(b, a) THEN [ok |-> TRUE, val |-> BigSub(a, b)]
    ELSE IF checks THEN [ok |-> FALSE, val |-> BigZero]
    ELSE [ok |-> TRUE, val |-> BigSub(TwoPow64, BigSub(b, a))]

\* Lwm::lwm_read_file: fs::read_to_string(MEMINFO_PATH).unwrap() on a file
\* system that holds the files fs; ok = FALSE is the panic.
lwm_read_file(fs) ==
    IF MEMINFO_PATH \in DOMAIN fs
    THEN [ok |-> TRUE, text |-> fs[MEMINFO_PATH]]
    ELSE [ok |-> FALSE, text |-> <<>>]

\* Lwm::lwm_attach_values.  The first failing step ends it: panic names the
\* failure, "none" is success.
lwm_attach_values(fs, checks) ==
    LET file == lwm_read_file(fs)
        text == file.text
        v(k) == lwm_get_value(text, k)
        t == v("MemTotal:")
        f == v("MemFree:")
        a == v("MemAvailable:")
        used == sub_u64(t.val, a.val, checks)
        b == v("Buffers:")
        c == v("Cached:")
        sc == v("SwapCached:")
        sf == v("SwapFree:")
        st == v("SwapTotal:")
        sused == sub_u64(st.val, sf.val, checks)
        z == v("Zswap:")
        zd == v("Zswapped:")
        sh == v("Shmem:")
        sr == v("SReclaimable:")
        fail(cause) == [panic |-> cause, lwm |-> Lwm_new]
    IN IF ~file.ok THEN fail("read_err")
       ELSE IF ~(t.ok /\ f.ok /\ a.ok) THEN fail("unwrap_err")
       ELSE IF ~used.ok THEN fail("sub_overflow")
       ELSE IF ~(b.ok /\ c.ok /\ sc.ok /\ sf.ok /\ st.ok) THEN fail("unwrap_err")
       ELSE IF ~sused.ok THEN fail("sub_overflow")
       ELSE IF ~(z.ok /\ zd.ok /\ sh.ok /\ sr.ok) THEN fail("unwrap_err")
       ELSE [panic |-> "none",
             lwm |-> [mem_total |-> t.val, mem_free |-> f.val, mem_avail |-> a.val,
                      mem_used |-> used.val, buffers |-> b.val, cached |-> c.val,
                      swap_cached |-> sc.val, swap_total |-> st.val,
                      swap_free |-> sf.val, swap_used |-> sused.val,
                      zswap |-> z.val, zswapped |-> zd.val, shmem |-> sh.val,
                      s_reclaimable |-> sr.val]]

\* ------------------------------------------ the human-readable formatter

SUFFIX_binary == <<"B", "KiB", "MiB", "GiB", "TiB", "PiB">>
SUFFIX_decimal == <<"B", "KB", "MB", "GB", "TB", "PB">>

\* The number of whole ladder steps below sz; a step is taken at its
\* threshold (at_threshold) or only above it.
LadderSteps[sz \in Seq(0..9), unit \in Nat, at_threshold \in BOOLEAN] ==
    IF BigLt(sz, BigOfNat(unit)) \/ (~at_threshold /\ sz = BigOfNat(unit)) THEN 0
    ELSE 1 + LadderSteps[BigDivSmall(sz, unit), unit, at_threshold]

\* A ladder step taken only above the threshold, not at it.
base_floor_strict(sz, unit) == LadderSteps[sz, unit, FALSE]

\* base.floor() for base = size.log10() / unit.log10(), size >= 1: the
\* largest i with unit^i <= size.
base_floor(sz, unit) == LadderSteps[sz, unit, TRUE]

\* (unit.powf(base - base.floor()) * 10.0).round(), in tenths:
\* size / unit^i times ten, rounded half away from zero.
magnitude_tenths(sz, unit, i) ==
    LET p == BigPow(unit, i)
    IN BigDivFactors(BigAdd(BigMulSmall(sz, 20), p), <<2>> \o [j \in 1..i |-> unit])

\* ryu's rendering of tenths / 10.0: the integer part, a point, one digit.
ryu_format(tenths) ==
    BigChars(BigDivSmall(tenths, 10)) \o <<".", DigitChars[tenths[Len(tenths)] + 1]>>

\* A whole f64 with its sign, as lwm_conv_to_hbytes takes it.
F64(neg, mag) == [neg |-> neg, mag |-> mag]

\* Lwm::lwm_conv_to_hbytes; panic is SUFFIX[base.floor() as usize] out of
\* bounds.
lwm_conv_to_hbytes(sz, bin) ==
    IF sz.neg \/ sz.mag = BigZero THEN [panic |-> FALSE, text |-> <<"0", "B">>]
    ELSE LET unit == IF bin THEN 1024 ELSE 1000
             i == base_floor(sz.mag, unit)
             result == ryu_format(magnitude_tenths(sz.mag, unit, i))
             SUFFIX == IF bin THEN SUFFIX_binary ELSE SUFFIX_decimal
         IN IF i + 1 > Len(SUFFIX) THEN [panic |-> TRUE, text |-> <<>>]
            ELSE [panic |-> FALSE, text |-> Append(result, SUFFIX[i + 1])]

\* ------------------------------------------------------------ the reports

\* The fields in the order every report prints them, and their labels.
ReportFields ==
    <<"mem_total", "mem_free", "mem_avail", "mem_used", "buffers", "swap_total",
      "swap_free", "swap_cached", "swap_used", "zswap", "zswapped", "shmem">>

ReportLabels ==
    <<"Total Memory", "Free Memory", "Avail Memory", "Used Memory", "Buffered",
      "Total Swap", "Free Swap", "Cached Swap", "Used Swap", "Total ZSwap",
      "Commit ZSwap", "Shared Memory">>

Banner ==
    <<"======================", "| Memory Information |", "======================">>

\* One line of the format string: "* {WHITE_COLOR}label{END_COLOR}: {}" or
\* "* label: {}".
colored_line(label, val) == <<"* ", WHITE_COLOR, label, END_COLOR, ": ">> \o val

plain_line(label, val) == <<"* ", label, ": ">> \o val

\* What println! writes: the banner's three lines, then one line per field.
report_text(vals, is_color) ==
    [i \in 1..(Len(Banner) + Len(vals)) |->
        IF i <= Len(Banner) THEN <<Banner[i]>>
        ELSE IF is_color
             THEN colored_line(ReportLabels[i - Len(Banner)], vals[i - Len(Banner)])
             ELSE plain_line(ReportLabels[i - Len(Banner)], vals[i - Len(Banner)])]

\* Lwm::lwm_print_all.  hbytes_sizes are the byte counts handed to
\* lwm_conv_to_hbytes, in field order; panic is a formatter call that
\* panicked while the arguments of format! were evaluated (nothing is
\* printed then).
lwm_print_all(self, is_binary, is_frndly, is_color) ==
    LET unit == IF is_binary THEN 1024 ELSE 1000
        sizes == [i \in 1..Len(ReportFields) |-> to_bytes(self[ReportFields[i]], unit)]
        convs == [i \in 1..Len(ReportFields) |->
                     lwm_conv_to_hbytes(F64(FALSE, sizes[i]), is_binary)]
    IN IF is_frndly
       THEN IF \E i \in 1..Len(ReportFields) : convs[i].panic
            THEN [panic |-> TRUE, report |-> <<>>]
            ELSE [panic |-> FALSE,
                  report |-> [call |-> "lwm_print_all", size |-> <<>>,
                              hbytes_sizes |-> sizes,
                              text |-> report_text([i \in 1..Len(ReportFields) |->
                                                       convs[i].text], is_color)]]
       ELSE [panic |-> FALSE,
             report |-> [call |-> "lwm_print_all", size |-> <<>>,
                         hbytes_sizes |-> <<>>,
                         text |-> report_text(
                             [i \in 1..Len(ReportFields) |->
                                 BigChars(as_u64(to_bytes(self[ReportFields[i]], 1024)))],
                             TRUE)]]

\* Lwm::lwm_print_to_size
lwm_print_to_size(self, sz, is_color) ==
    [panic |-> FALSE,
     report |-> [call |-> "lwm_print_to_size", size |-> sz, hbytes_sizes |-> <<>>,
                 text |-> report_text(
                     [i \in 1..Len(ReportFields) |->
                         BigChars(as_u64(to_size(self[ReportFields[i]], sz)))],
                     is_color)]]

\* ------------------------------------------------------------ command line

\* The unit-selecting flags of LwmArgs, in the order main tests them.
UnitFlags ==
    <<"bytes", "kilo", "kibi", "mega", "mibi", "giga", "gibi", "tera", "tibi",
      "peta", "pibi">>

UnitFlagSet == {UnitFlags[i] : i \in 1..Len(UnitFlags)}

\* LwmArgs
LwmArgs(all, no_color, bin, friendly, units) ==
    [all |-> all, no_color |-> no_color, binary |-> bin, friendly |-> friendly,
     bytes |-> "bytes" \in units, kilo |-> "kilo" \in units, kibi |-> "kibi" \in units,
     mega |-> "mega" \in units, mibi |-> "mibi" \in units, giga |-> "giga" \in units,
     gibi |-> "gibi" \in units, tera |-> "tera" \in units, tibi |-> "tibi" \in units,
     peta |-> "peta" \in units, pibi |-> "pibi" \in units]

NoArgs == LwmArgs(FALSE, FALSE, FALSE, FALSE, {})

\* The command lines LwmArgs::parse() accepts, up to MaxUnitFlags unit flags.
CommandLines ==
    {LwmArgs(a, n, b, f, u) :
        a \in BOOLEAN, n \in BOOLEAN, b \in BOOLEAN, f \in BOOLEAN,
        u \in {x \in SUBSET UnitFlagSet : Cardinality(x) <= MaxUnitFlags}}

GivenUnits(a) == {u \in UnitFlagSet : a[u]}

\* The size main hands to lwm_print_to_size: the else-if chain of main,
\* <<>> when it ends in lwm_print_all.
main_size(a) ==
    IF a.all THEN <<>>
    ELSE IF a.bytes THEN TO_B
    ELSE IF a.kilo THEN TO_KB
    ELSE IF a.kibi THEN TO_KiB
    ELSE IF a.mega THEN TO_MB
    ELSE IF a.mibi THEN TO_MiB
    ELSE IF a.giga THEN TO_GB
    ELSE IF a.gibi THEN TO_GiB
    ELSE IF a.tera THEN TO_TB
    ELSE IF a.tibi THEN TO_TiB
    ELSE IF a.peta THEN TO_PB
    ELSE IF a.pibi THEN TO_PiB
    ELSE <<>>

\* ------------------------------------------------- the text of /proc/meminfo

\* The keys of the file in the kernel's order; "Active:" is a line the
\* program never asks for.
FileKeys ==
    <<"MemTotal:", "MemFree:", "MemAvailable:", "Buffers:", "Cached:",
      "SwapCached:", "Active:", "SwapTotal:", "SwapFree:", "Zswap:", "Zswapped:",
      "Shmem:", "SReclaimable:">>

Pad(n) == [i \in 1..n |-> " "]

\* "Key:   <digits> kB", as the kernel writes it.
KernelLine(k, v) == <<k>> \o Pad(3) \o BigChars(v) \o <<" ", "k", "B">>

Profile(t, a, st, sf, other) ==
    [k \in {FileKeys[i] : i \in 1..Len(FileKeys)} |->
        IF k = "MemTotal:" THEN t
        ELSE IF k = "MemAvailable:" THEN a
        ELSE IF k = "SwapTotal:" THEN st
        ELSE IF k = "SwapFree:" THEN sf
        ELSE other]

Meminfo(p) == [i \in 1..Len(FileKeys) |-> KernelLine(FileKeys[i], p[FileKeys[i]])]

Healthy == Profile(BigOfNat(1000), BigOfNat(400), BigOfNat(500), BigOfNat(120), BigOfNat(5000))

Profiles ==
    {Healthy,
     Profile(BigOfNat(1048576), BigZero, BigZero, BigZero, BigOfNat(1)),
     Profile(BigPow(1024, 5), BigPow(1000, 5), BigPow(1024, 5), BigZero, BigOfNat(1024)),
     Profile(BigOfNat(400), BigOfNat(1000), BigOfNat(500), BigOfNat(120), BigOfNat(5000)),
     Profile(BigOfNat(1000), BigOfNat(400), BigOfNat(120), BigOfNat(500), BigOfNat(5000))}

\* The file without its line for k.
Missing(text, k) == SelectSeq(text, LAMBDA e : e[1] # k)

\* The file with the value of k's line replaced by junk.
Malformed(text, k, junk) ==
    [i \in 1..Len(text) |-> IF text[i][1] = k THEN <<k, " ">> \o junk ELSE text[i]]

\* The file with one more line for k at its end.
Duplicated(text, k, rest) == Append(text, <<k>> \o rest)

Junk ==
    {<<"1", "2", " ", "M", "B">>, <<>>, <<"-", "1">>, BigChars(TwoPow64) \o <<" ", "k", "B">>}

\* The file with the first, a middle and the last key malformed.
MalformedKeys == {"MemTotal:", "SwapTotal:", "SReclaimable:"}

SourceTexts ==
    {Meminfo(p) : p \in Profiles}
    \cup {Missing(Meminfo(Healthy), RequiredKeys[i]) : i \in 1..Len(RequiredKeys)}
    \cup {Malformed(Meminfo(Healthy), k, <<"1", "2", " ", "M", "B">>) : k \in MalformedKeys}
    \cup {Malformed(Meminfo(Healthy), "MemFree:", j) : j \in Junk}
    \cup {Duplicated(Meminfo(Healthy), "MemTotal:", r) :
            r \in {<<" ", "7", " ", "k", "B">>, <<>>}}

\* ----------------------------------------------------------- the program

NoValue == [ok |-> FALSE, val |-> BigZero]

Idle ==
    /\ key = ""
    /\ value = NoValue
    /\ size = F64(FALSE, BigZero)
    /\ binary = FALSE
    /\ hbytes = [panic |-> FALSE, text |-> <<>>]

\* The process starts: the file is what it is, Lwm::new() is built.
Init ==
    /\ pc = "start"
    /\ panic = "none"
    /\ src \in SourceTexts
    /\ args = NoArgs
    /\ lwm = Lwm_new
    /\ out = <<>>
    /\ Idle

\* LwmArgs::parse()
ParseArgs ==
    /\ pc = "start"
    /\ panic = "none"
    /\ \E a \in CommandLines : args' = a
    /\ pc' = "attach"
    /\ UNCHANGED <<panic, src, lwm, out, key, value, size, binary, hbytes>>

\* The file system at the time of the read: src at MEMINFO_PATH, or no file
\* there.
FileSystems(text) == {[path \in {MEMINFO_PATH} |-> text], [path \in {} |-> text]}

\* lwm.lwm_attach_values(), in a build with or without overflow checks.
AttachValues ==
    /\ pc = "attach"
    /\ panic = "none"
    /\ \E checks \in BOOLEAN, fs \in FileSystems(src) :
          LET r == lwm_attach_values(fs, checks)
          IN IF r.panic # "none"
             THEN panic' = r.panic /\ UNCHANGED <<pc, lwm>>
             ELSE lwm' = r.lwm /\ pc' = "report" /\ UNCHANGED panic
    /\ UNCHANGED <<src, args, out, key, value, size, binary, hbytes>>

\* main: the branches that end in lwm_print_all.
PrintAll ==
    /\ pc = "report"
    /\ panic = "none"
    /\ main_size(args) = <<>>
    /\ LET r == lwm_print_all(lwm, args.binary, args.friendly, ~args.no_color)
       IN IF r.panic
          THEN panic' = "index_out_of_bounds" /\ UNCHANGED <<pc, out>>
          ELSE out' = Append(out, r.report) /\ pc' = "exit" /\ UNCHANGED panic
    /\ UNCHANGED <<src, args, lwm, key, value, size, binary, hbytes>>

\* main: the branches that end in lwm_print_to_size.
PrintToSize ==
    /\ pc = "report"
    /\ panic = "none"
    /\ main_size(args) # <<>>
    /\ LET r == lwm_print_to_size(lwm, main_size(args), ~args.no_color)
       IN out' = Append(out, r.report) /\ pc' = "exit"
    /\ UNCHANGED <<panic, src, args, lwm, key, value, size, binary, hbytes>>

Next == ParseArgs \/ AttachValues \/ PrintAll \/ PrintToSize

Spec == Init /\ [][Next]_vars

\* ------------------------------------------- lwm_get_value on its own

ExtractKeys == {"MemTotal:", "Cached:"}

ExtractDigits ==
    {<<"0">>, <<"7">>, <<"0", "0", "7">>, BigChars(BigOfNat(16384000)),
     BigChars(U64_MAX), BigChars(TwoPow64)}

ExtractSuffixes ==
    {<<>>, <<"k", "B">>, <<"k", "B", "k", "B">>, <<"M", "B">>, <<"k", "B", " ">>}

ExtractLine(k, n, d, m, sfx) == <<k>> \o Pad(n) \o d \o Pad(m) \o sfx

\* A line of another key, whose name ends in "Cached:".
Unrelated == <<"SwapCached:", " ", "9", " ", "k", "B">>

DuplicateRests == {<<" ", "1", " ", "k", "B">>, <<" ", "2">>, <<" ", " ", "3", "0", " ", "k", "B">>}

ExtractTexts(k) ==
    {<<Unrelated, ExtractLine(k, n, d, m, sfx)>> :
        n \in 0..MaxPad, m \in 0..MaxPad, d \in ExtractDigits, sfx \in ExtractSuffixes}
    \cup {<<ExtractLine(k, 7, BigChars(BigOfNat(16384000)), 1, <<"k", "B">>)>>}
    \cup {<<<<k>> \o r1, Unrelated, <<k>> \o r2>> : r1 \in DuplicateRests, r2 \in DuplicateRests}
    \cup {<<Unrelated>>}

InitExtract ==
    /\ pc = "call"
    /\ panic = "none"
    /\ key \in ExtractKeys
    /\ src \in ExtractTexts(key)
    /\ value = NoValue
    /\ args = NoArgs
    /\ lwm = Lwm_new
    /\ out = <<>>
    /\ size = F64(FALSE, BigZero)
    /\ binary = FALSE
    /\ hbytes = [panic |-> FALSE, text |-> <<>>]

\* self.lwm_get_value(&src, key)
GetValue ==
    /\ pc = "call"
    /\ panic = "none"
    /\ value' = lwm_get_value(src, key)
    /\ IF value'.ok
       THEN pc' = "returned" /\ UNCHANGED panic
       ELSE panic' = "unwrap_err" /\ UNCHANGED pc
    /\ UNCHANGED <<src, args, lwm, out, key, size, binary, hbytes>>

NextExtract == GetValue

SpecExtract == InitExtract /\ [][NextExtract]_vars

\* ------------------------------------- lwm_conv_to_hbytes on its own

LadderUnits == {1000, 1024}

ByteCounts ==
    {BigOfNat(n) : n \in 0..MaxSmallBytes}
    \cup {BigOfNat(n) : n \in {999, 1000, 1001, 1023, 1024, 1025, 1049, 1050, 1051,
                               1075, 1280, 1536, 999949, 999950, 999999, 1000000,
                               1048575, 1048576, 1048577}}
    \cup {BigPow(s, k) : s \in LadderUnits, k \in 3..6}
    \cup {BigSub(BigPow(s, k), <<1>>) : s \in LadderUnits, k \in 3..4}
    \cup {BigMulSmall(BigPow(s, k), m) : s \in LadderUnits, k \in 3..6, m \in {2, 999}}

\* The magnitudes of the negative sizes given to the formatter.
NegativeCounts == {BigOfNat(n) : n \in {1, 999, 1024}}

InitConv ==
    /\ pc = "call"
    /\ panic = "none"
    /\ size \in {F64(FALSE, b) : b \in ByteCounts} \cup {F64(TRUE, b) : b \in NegativeCounts}
    /\ binary \in BOOLEAN
    /\ hbytes = [panic |-> FALSE, text |-> <<>>]
    /\ key = ""
    /\ value = NoValue
    /\ src = <<>>
    /\ args = NoArgs
    /\ lwm = Lwm_new
    /\ out = <<>>

\* self.lwm_conv_to_hbytes(size, binary)
ConvToHbytes ==
    /\ pc = "call"
    /\ panic = "none"
    /\ hbytes' = lwm_conv_to_hbytes(size, binary)
    /\ IF hbytes'.panic
       THEN panic' = "index_out_of_bounds" /\ UNCHANGED pc
       ELSE pc' = "returned" /\ UNCHANGED panic
    /\ UNCHANGED <<src, args, lwm, out, key, value, size, binary>>

NextConv == ConvToHbytes

SpecConv == InitConv /\ [][NextConv]_vars

\* ------------------------------------------------------------- the claims

\* The lines of a text that start with k.
MatchingLines(text, k) == {i \in 1..Len(text) : Len(text[i]) > 0 /\ text[i][1] = k}

LastMatchingLine(text, k) ==
    CHOOSE i \in MatchingLines(text, k) : \A j \in MatchingLines(text, k) : j <= i

Returned == pc = "returned" \/ panic # "none"

\* C1: when two or more lines start with the key, lwm_get_value returns the
\* value of the last matching line only.
C1_LastMatchWins ==
    (Returned /\ Cardinality(MatchingLines(src, key)) >= 2)
        => value = lwm_get_value(<<src[LastMatchingLine(src, key)]>>, key)

\* The matched text of k parses as an unsigned 64-bit integer.
ParsesAsU64(text, k) ==
    LET s == collect(text, k)
        body == IF Len(s) > 0 /\ s[1] = "+" THEN Tail(s) ELSE s
    IN /\ Len(body) > 0
       /\ \A i \in 1..Len(body) : IsDigit(body[i])
       /\ BigLeq(BigNorm([i \in 1..Len(body) |-> DigitOfChar(body[i])]), U64_MAX)

EveryKeyReadable(text) ==
    \A i \in 1..Len(RequiredKeys) :
        /\ MatchingLines(text, RequiredKeys[i]) # {}
        /\ ParsesAsU64(text, RequiredKeys[i])

UnitTable(u) ==
    CASE u = "bytes" -> <<1>>
      [] u = "kilo" -> <<1000>>
      [] u = "mega" -> <<1000, 1000>>
      [] u = "giga" -> <<1000, 1000, 1000>>
      [] u = "tera" -> <<1000, 1000, 1000, 1000>>
      [] u = "peta" -> <<1000, 1000, 1000, 1000, 1000>>
      [] u = "kibi" -> <<1024>>
      [] u = "mibi" -> <<1024, 1024>>
      [] u = "gibi" -> <<1024, 1024, 1024>>
      [] u = "tibi" -> <<1024, 1024, 1024, 1024>>
      [] u = "pibi" -> <<1024, 1024, 1024, 1024, 1024>>

\* The value printed on each field line of a report: what follows ": ".
ReportValues(r) ==
    [i \in 1..Len(ReportFields) |->
        LET ln == r.text[Len(Banner) + i]
            c == CHOOSE j \in 1..Len(ln) : ln[j] = ": "
        IN SubSeq(ln, c + 1, Len(ln))]

\* C3: the single-unit report of unit u prints floor(v * 1024 / divisor(u))
\* for every field value v, with the divisor of the unit table (1000^k for
\* kilo..peta, 1024^k for kibi..pebi).
C3_UnitTable ==
    \A u \in UnitFlagSet :
        (pc = "exit" /\ ~args.all /\ GivenUnits(args) = {u})
            => ReportValues(out[1]) =
                 [i \in 1..Len(ReportFields) |->
                     BigChars(BigDivFactors(BigMulSmall(lwm[ReportFields[i]], 1024),
                                            UnitTable(u)))]

SourceValue(k) == lwm_get_value(src, k).val

\* C4: when MemTotal >= MemAvailable and SwapTotal >= SwapFree, the snapshot
\* has used memory = total - available and used swap = swap total - swap
\* free (1000 - 400 = 600, 500 - 120 = 380), from its construction to the
\* end of the run.
C4_DerivedFields ==
    (pc \in {"report", "exit"}
        /\ BigLeq(SourceValue("MemAvailable:"), SourceValue("MemTotal:"))
        /\ BigLeq(SourceValue("SwapFree:"), SourceValue("SwapTotal:")))
    => /\ lwm.mem_total = SourceValue("MemTotal:")
       /\ lwm.mem_avail = SourceValue("MemAvailable:")
       /\ lwm.swap_total = SourceValue("SwapTotal:")
       /\ lwm.swap_free = SourceValue("SwapFree:")
       /\ BigAdd(lwm.mem_used, lwm.mem_avail) = lwm.mem_total
       /\ BigAdd(lwm.swap_used, lwm.swap_free) = lwm.swap_total
       /\ (lwm.mem_total = <<1, 0, 0, 0>> /\ lwm.mem_avail = <<4, 0, 0>>
              => lwm.mem_used = <<6, 0, 0>>)
       /\ (lwm.swap_total = <<5, 0, 0>> /\ lwm.swap_free = <<1, 2, 0>>
              => lwm.swap_used = <<3, 8, 0>>)

C4_Witness ==
    /\ pc = "exit"
    /\ Len(out) = 1
    /\ lwm.mem_total = <<1, 0, 0, 0>>
    /\ lwm.mem_avail = <<4, 0, 0>>
    /\ lwm.mem_used = <<6, 0, 0>>
    /\ lwm.swap_total = <<5, 0, 0>>
    /\ lwm.swap_free = <<1, 2, 0>>
    /\ lwm.swap_used = <<3, 8, 0>>

HasEscape(r) ==
    \E i \in 1..Len(r.text) : \E j \in 1..Len(r.text[i]) :
        r.text[i][j] \in {WHITE_COLOR, END_COLOR}

\* The report main prints for command line a.
MainReport(self, a) ==
    IF main_size(a) = <<>>
    THEN lwm_print_all(self, a.binary, a.friendly, ~a.no_color).report
    ELSE lwm_print_to_size(self, main_size(a), ~a.no_color).report

\* C5: with color disabled every report (all-fields raw bytes, all-fields
\* human-readable, single-unit) holds no ANSI escape sequence, and prints
\* the values it prints with color enabled.
C5_ColorToggle ==
    (pc = "exit" /\ args.no_color)
        => /\ ~HasEscape(out[1])
           /\ ReportValues(out[1]) =
                ReportValues(MainReport(lwm, [args EXCEPT !.no_color = FALSE]))

\* rest is whitespace, digits, whitespace and an optional trailing kB; the
\* digits are rest[a + 1 .. a + b].
WellFormedAt(rest, a, b) ==
    /\ b >= 1
    /\ a + b <= Len(rest)
    /\ \A i \in 1..a : rest[i] \in Whitespace
    /\ \A i \in (a + 1)..(a + b) : IsDigit(rest[i])
    /\ \E c \in 0..(Len(rest) - a - b) :
          /\ \A i \in (a + b + 1)..(a + b + c) : rest[i] \in Whitespace
          /\ \/ Len(rest) = a + b + c
             \/ /\ Len(rest) = a + b + c + 2
                /\ rest[Len(rest) - 1] = "k"
                /\ rest[Len(rest)] = "B"
    /\ (a + b < Len(rest) => ~IsDigit(rest[a + b + 1]))

\* The number the digits rest[a + 1 .. a + b] denote.
Denoted(rest, a, b) == BigNorm([i \in 1..b |-> DigitOfChar(rest[a + i])])

\* The one line of src that starts with key, when there is exactly one.
TheLine == src[CHOOSE i \in MatchingLines(src, key) : TRUE]

\* C6 as stated: for a text with exactly one line of the key, of the form
\* key, whitespace, digits, optional whitespace and kB, lwm_get_value
\* returns the integer the digits denote.
C6_Original ==
    (Returned /\ Cardinality(MatchingLines(src, key)) = 1)
        => \A a \in 0..Len(TheLine), b \in 0..Len(TheLine) :
              WellFormedAt(Tail(TheLine), a, b)
                  => value.ok /\ value.val = Denoted(Tail(TheLine), a, b)

\* C6 amended: it returns the integer the digits denote when that integer
\* is at most 2^64 - 1, with or without the kB suffix and for any amount of
\* whitespace; when the integer is larger, the extraction fails.
C6_UniqueKey ==
    (Returned /\ Cardinality(MatchingLines(src, key)) = 1)
        => \A a \in 0..Len(TheLine), b \in 0..Len(TheLine) :
              WellFormedAt(Tail(TheLine), a, b)
                  => IF BigLeq(Denoted(Tail(TheLine), a, b), U64_MAX)
                     THEN value.ok /\ value.val = Denoted(Tail(TheLine), a, b)
                     ELSE ~value.ok /\ panic = "unwrap_err"

C6_Witness ==
    /\ pc = "returned"
    /\ key = "MemTotal:"
    /\ src = <<<<"MemTotal:", " ", " ", " ", " ", " ", " ", " ",
                 "1", "6", "3", "8", "4", "0", "0", "0", " ", "k", "B">>>>
    /\ value = [ok |-> TRUE, val |-> <<1, 6, 3, 8, 4, 0, 0, 0>>]

\* The suffixes the claim names, by unit system.
LadderNames(bin) ==
    IF bin THEN <<"B", "KiB", "MiB", "GiB", "TiB", "PiB">>
    ELSE <<"B", "KB", "MB", "GB", "TB", "PB">>

RECURSIVE DigitsToNat(_)
DigitsToNat(cs) ==
    IF cs = <<>> THEN 0
    ELSE 10 * DigitsToNat(SubSeq(cs, 1, Len(cs) - 1)) + DigitOfChar(cs[Len(cs)])

IsOneDecimal(text) ==
    LET n == Len(text)
    IN /\ n >= 4
       /\ n <= 9
       /\ text[n - 2] = "."
       /\ IsDigit(text[n - 1])
       /\ \A i \in 1..(n - 3) : IsDigit(text[i])

\* The number, in tenths, that a text "<digits>.<digit><suffix>" shows.
ShownTenths(text) ==
    10 * DigitsToNat(SubSeq(text, 1, Len(text) - 3)) + DigitOfChar(text[Len(text) - 1])

\* t is 10 * b / p rounded to an integer: |10 * b / p - t| <= 1/2.
RoundsTo(b, p, t) ==
    /\ t >= 1
    /\ BigLeq(BigMulSmall(p, 2 * t - 1), BigMulSmall(b, 20))
    /\ BigLeq(BigMulSmall(b, 20), BigMulSmall(p, 2 * t + 1))

Terminated == pc = "exit" \/ panic # "none"

\* C8: a run whose snapshot construction succeeds prints exactly one report
\* and exits: the all-fields report when --all or no unit flag is given,
\* otherwise the single-unit report of one of the given unit flags.
C8_OneReport ==
    (Terminated /\ pc \in {"report", "exit"})
        => /\ Len(out) = 1
           /\ IF args.all \/ GivenUnits(args) = {}
              THEN out[1].call = "lwm_print_all"
              ELSE /\ out[1].call = "lwm_print_to_size"
                   /\ \E u \in GivenUnits(args) :
                         out[1].size = main_size(LwmArgs(FALSE, FALSE, FALSE, FALSE, {u}))

\* C9: the suffix index the formatter uses is within 0..5 for every value
\* that can be extracted: no run ends in an out-of-bounds index.
C9_IndexInRange == panic # "index_out_of_bounds"

\* C10: the byte count handed to the human-readable formatter is v * 1024
\* for every field value v, in the binary and in the decimal unit system.
C10_BytesTimes1024 ==
    (pc = "exit" /\ out[1].hbytes_sizes # <<>>)
        => \A i \in 1..Len(ReportFields) :
              out[1].hbytes_sizes[i] = BigMulSmall(lwm[ReportFields[i]], 1024)

====
